---- MODULE Spec2Model ----
(***************************************************************************)
(* State-machine model of src/ml/train.py: train_model(data_path,          *)
(* model_output_path, metadata_output_path).                               *)
(*                                                                         *)
(* One action per statement group of train_model, so that the file system  *)
(* is observable between the stages.  A terminated run may be followed by  *)
(* another run on the same input (Rerun), which is how repeated runs and   *)
(* files left by earlier runs come about.                                  *)
(*                                                                         *)
(* A CSV line is kept sparsely: its field count and the positions that     *)
(* hold a non-finite token; every other field is a finite number.  A       *)
(* DataFrame row keeps the pandas index label it was loaded with.          *)
(***************************************************************************)
EXTENDS FiniteSets, Integers, Sequences, TLC

VARIABLES
    data_path,      \* what the input path resolves to (fixed over reruns)
    pc,             \* position inside train_model
    out,            \* lines printed that carry a diagnostic or a count
    exc,            \* the uncaught exception that ended the run, if any
    df,             \* the DataFrame
    X_train,
    X_test,
    model,          \* the IsolationForest
    avg_score,
    onnx_model,
    modelFile,      \* the file at model_output_path
    metaFile,       \* the file at metadata_output_path
    prev            \* the split of an earlier run on the same input

vars == << data_path, pc, out, exc, df, X_train, X_test, model, avg_score,
           onnx_model, modelFile, metaFile, prev >>

----------------------------------------------------------------------------
(* Program constants *)

FEATURE_NAMES ==
    << "REQUEST_TIME_S", "BYTES_SENT", "HTTP_STATUS_4XX", "HTTP_STATUS_5XX",
       "IS_UA_MISSING", "IS_UA_HEADLESS", "IS_UA_KNOWN_BAD", "IS_UA_CYCLING",
       "IS_PATH_NEW_FOR_IP", "IP_REQ_TIME_ZSCORE", "IP_BYTES_SENT_ZSCORE",
       "IP_ERROR_EVENT_ZSCORE", "IP_REQ_VOL_ZSCORE", "PATH_REQ_TIME_ZSCORE",
       "PATH_BYTES_SENT_ZSCORE", "PATH_ERROR_EVENT_ZSCORE",
       "SESSION_DURATION_S", "SESSION_REQ_COUNT",
       "SESSION_UNIQUE_PATH_COUNT", "SESSION_ERROR_4XX_COUNT",
       "SESSION_ERROR_5XX_COUNT", "SESSION_FAILED_LOGIN_COUNT",
       "SESSION_AVG_TIME_BETWEEN_REQS_S", "SESSION_POST_TO_GET_RATIO",
       "SESSION_UA_CHANGE_COUNT", "SESSION_BYTES_SENT_MEAN",
       "SESSION_REQ_TIME_MEAN" >>

num_features == Len(FEATURE_NAMES)

\* len(df) < 200
SmallDatasetRows == 200

\* test_size=0.3, as the exact ratio TestSizeNum / TestSizeDen
TestSizeNum == 3
TestSizeDen == 10

\* random_state=42
random_state == 42

----------------------------------------------------------------------------
(* Inputs *)

\* rows of the small input files
MaxRows == 3

NoCells == [p \in {} |-> "nan"]

Line(w, nf) == [width |-> w, nf |-> nf]

\* The lines the small files are made of: a well-formed finite line, lines
\* with one non-finite token, a line one field short and one field long.
LineKinds ==
    { Line(num_features, NoCells),
      Line(num_features, [p \in {1} |-> "inf"]),
      Line(num_features, [p \in {num_features} |-> "-inf"]),
      Line(num_features, [p \in {2} |-> "nan"]),
      Line(num_features - 1, NoCells),
      Line(num_features + 1, NoCells) }

SmallFiles == UNION { [1..n -> LineKinds] : n \in 0..MaxRows }

\* n well-formed lines, the one at position bad (if any) holding an inf
BigFile(n, bad) ==
    [i \in 1..n |-> IF i = bad THEN Line(num_features, [p \in {1} |-> "inf"])
                    ELSE Line(num_features, NoCells)]

\* Files around the small-dataset threshold, and the 1,000-row scenario
BigFiles ==
    { BigFile(SmallDatasetRows - 1, 0),
      BigFile(SmallDatasetRows, 0),
      BigFile(SmallDatasetRows, 7),
      BigFile(SmallDatasetRows + 1, 7),
      BigFile(1000, 0) }

\* What data_path may resolve to: nothing, something that exists but cannot
\* be read as a file (a directory, a file without read permission), a file.
Paths ==
    { [kind |-> "missing", lines |-> << >>],
      [kind |-> "unreadable", lines |-> << >>] }
    \cup { [kind |-> "file", lines |-> f] : f \in SmallFiles \cup BigFiles }

----------------------------------------------------------------------------
(* Values of the program's variables *)

NoDf == [ncols |-> 0, columns |-> << >>, rows |-> << >>]

NoExc == [type |-> "none", at |-> "none"]

NoModel == [fitted |-> FALSE, fitted_on |-> << >>, n_features_in |-> 0]

NoScore == [computed |-> FALSE, model |-> NoModel, samples |-> << >>]

NoOnnx == [converted |-> FALSE, graph_of |-> NoModel, input_name |-> "",
           input_batch |-> "", input_width |-> 0, dtype |-> ""]

NoMeta == [model_type |-> "", training_data_path |-> "",
           training_samples |-> 0, num_features |-> 0,
           feature_names_ordered |-> << >>,
           evaluation_metrics |-> [average_anomaly_score_test |-> NoScore]]

\* A file on disk: who wrote it (no one, an earlier run or whatever was
\* there before, this run), how far the write got, and what it holds.
AbsentModelFile == [by |-> "none", state |-> "absent", content |-> NoOnnx]
OldModelFile == [by |-> "earlier", state |-> "old", content |-> NoOnnx]
AbsentMetaFile == [by |-> "none", state |-> "absent", content |-> NoMeta]
OldMetaFile == [by |-> "earlier", state |-> "old", content |-> NoMeta]

NoPrev == [has |-> FALSE, train |-> << >>, test |-> << >>]

\* len(df)
len(d) == Len(d.rows)

\* df.index, in row order
Index(d) == [i \in 1..Len(d.rows) |-> d.rows[i].index]

----------------------------------------------------------------------------
(* Library calls, by what they do to the values above *)

\* os.path.exists(data_path)
exists(p) == p.kind # "missing"

\* The fields of one parsed line under a table w columns wide: a line with
\* fewer fields is filled up with missing values.
ParsedCells(line, w) ==
    [p \in (DOMAIN line.nf) \cup ((line.width + 1)..w) |->
        IF p \in DOMAIN line.nf THEN line.nf[p] ELSE "nan"]

\* pd.read_csv(data_path, header=None): the table is as wide as the first
\* line; a later line with more fields is a tokenizing error, an empty file
\* has no columns to parse, and a path that is no readable file cannot be
\* opened.  Column labels are 0..w-1, index labels 0..n-1.
read_csv(p) ==
    IF p.kind # "file" THEN [err |-> "OSError", df |-> NoDf]
    ELSE IF Len(p.lines) = 0 THEN [err |-> "EmptyDataError", df |-> NoDf]
    ELSE LET w == p.lines[1].width IN
         IF \E i \in 2..Len(p.lines) : p.lines[i].width > w
         THEN [err |-> "ParserError", df |-> NoDf]
         ELSE [err |-> "none",
               df |-> [ncols |-> w,
                       columns |-> [j \in 1..w |-> ToString(j - 1)],
                       rows |-> [i \in 1..Len(p.lines) |->
                                   [index |-> i - 1,
                                    cells |-> ParsedCells(p.lines[i], w)]]]]

\* a width check that only rejects tables that are too wide
FeatureCountTooMany(d) == d.ncols > Len(FEATURE_NAMES)

\* df.shape[1] != len(FEATURE_NAMES)
FeatureCountMismatch(d) == d.ncols # Len(FEATURE_NAMES)

\* a replace that forgets -np.inf
replace_pos_inf_only(d) ==
    [d EXCEPT !.rows =
        [i \in 1..Len(d.rows) |->
            [d.rows[i] EXCEPT !.cells =
                [p \in DOMAIN d.rows[i].cells |->
                    IF d.rows[i].cells[p] = "inf" THEN "nan"
                    ELSE d.rows[i].cells[p]]]]]

\* df.replace([np.inf, -np.inf], np.nan, inplace=True)
replace(d) ==
    [d EXCEPT !.rows =
        [i \in 1..Len(d.rows) |->
            [d.rows[i] EXCEPT !.cells =
                [p \in DOMAIN d.rows[i].cells |->
                    IF d.rows[i].cells[p] \in {"inf", "-inf"} THEN "nan"
                    ELSE d.rows[i].cells[p]]]]]

HasNaN(r) == \E p \in DOMAIN r.cells : r.cells[p] = "nan"

\* df.dropna(inplace=True)
dropna(d) == [d EXCEPT !.rows = SelectSeq(d.rows, LAMBDA r : ~HasNaN(r))]

\* an off-by-one threshold test
IsSmallInclusive(d) == len(d) <= SmallDatasetRows

\* len(df) < 200
IsSmall(d) == len(d) < SmallDatasetRows

\* a test size rounded down instead of up
n_test_floor(n) == (TestSizeNum * n) \div TestSizeDen

\* sklearn _validate_shuffle_split: n_test = ceil(test_size * n_samples)
n_test(n) == (TestSizeNum * n + TestSizeDen - 1) \div TestSizeDen

\* ... n_train = n_samples - n_test (train_size is None)
n_train(n) == n - n_test(n)

\* a split that never refuses an empty train set
SplitNeverRaises(n) == n < 0

\* ... "the resulting train set will be empty": ValueError
SplitRaises(n) == n_train(n) = 0

\* check_random_state(seed).permutation(n): a permutation of 1..n fixed by
\* the seed and n.  The generator itself is library code; what the split
\* relies on is that this is a bijection and a function of (seed, n) only.
\* Stand-in: i |-> seed - (i-1) (mod n).
permutation(seed, n) ==
    [i \in 1..n |-> ((seed + (n - 1) * (i - 1)) % n) + 1]

\* d.iloc[ind]
take(d, ind) == [d EXCEPT !.rows = [k \in 1..Len(ind) |-> d.rows[ind[k]]]]

\* train_test_split(df, test_size=0.3, random_state=42), for a df it does
\* not raise on: ShuffleSplit takes the first n_test entries of the
\* permutation as the test rows and the next n_train as the train rows.
train_test_split(d) ==
    LET n == len(d)
        perm == permutation(random_state, n)
    IN  [train |-> take(d, [k \in 1..n_train(n) |-> perm[n_test(n) + k]]),
         test |-> take(d, [k \in 1..n_test(n) |-> perm[k]])]

\* IsolationForest(n_estimators=100, ..., random_state=42).fit(X_train)
fit(Xtr) ==
    [fitted |-> TRUE, fitted_on |-> Index(Xtr), n_features_in |-> Xtr.ncols]

\* np.mean(model.score_samples(X_test)): the mean of m's scores of Xte
mean_score(m, Xte) == [computed |-> TRUE, model |-> m, samples |-> Index(Xte)]

\* convert_sklearn(model, [("float_input", FloatTensorType([None, nf]))])
convert_sklearn(m, nf) ==
    [converted |-> TRUE, graph_of |-> m, input_name |-> "float_input",
     input_batch |-> "None", input_width |-> nf, dtype |-> "float32"]

\* a metadata dict that reports the cleaned row count as training_samples
metadata_all_rows(Xtr, nf, score) ==
    [model_type |-> "IsolationForest",
     training_data_path |-> "data_path",
     training_samples |-> len(Xtr) + Len(score.samples),
     num_features |-> nf,
     feature_names_ordered |-> FEATURE_NAMES,
     evaluation_metrics |-> [average_anomaly_score_test |-> score]]

\* the metadata dict (training_timestamp_utc, a clock reading, is left out)
metadata(Xtr, nf, score) ==
    [model_type |-> "IsolationForest",
     training_data_path |-> "data_path",
     training_samples |-> len(Xtr),
     num_features |-> nf,
     feature_names_ordered |-> FEATURE_NAMES,
     evaluation_metrics |-> [average_anomaly_score_test |-> score]]

----------------------------------------------------------------------------
(* train_model *)

Say(msg, n) == Append(out, [msg |-> msg, n |-> n])

Printed(msg) == \E i \in 1..Len(out) : out[i].msg = msg

Terminated == pc \in {"returned", "raised", "done"}

Init ==
    /\ data_path \in Paths
    /\ pc = "start"
    /\ out = << >>
    /\ exc = NoExc
    /\ df = NoDf
    /\ X_train = NoDf
    /\ X_test = NoDf
    /\ model = NoModel
    /\ avg_score = NoScore
    /\ onnx_model = NoOnnx
    /\ modelFile \in {AbsentModelFile, OldModelFile}
    /\ metaFile \in {AbsentMetaFile, OldMetaFile}
    /\ prev = NoPrev

\* if not os.path.exists(data_path): print FATAL ERROR; return
CheckPath ==
    /\ pc = "start"
    /\ IF ~exists(data_path)
       THEN /\ out' = Say("FATAL ERROR: Data file not found", 0)
            /\ pc' = "returned"
       ELSE /\ out' = out
            /\ pc' = "read"
    /\ UNCHANGED << data_path, exc, df, X_train, X_test, model, avg_score,
                    onnx_model, modelFile, metaFile, prev >>

\* df = pd.read_csv(data_path, header=None)
ReadCsv ==
    /\ pc = "read"
    /\ LET r == read_csv(data_path) IN
       IF r.err # "none"
       THEN /\ exc' = [type |-> r.err, at |-> "read_csv"]
            /\ pc' = "raised"
            /\ df' = df
       ELSE /\ df' = r.df
            /\ pc' = "validate"
            /\ exc' = exc
    /\ UNCHANGED << data_path, out, X_train, X_test, model, avg_score,
                    onnx_model, modelFile, metaFile, prev >>

\* if df.shape[1] != len(FEATURE_NAMES): print FATAL ERROR; return
\* df.columns = FEATURE_NAMES; print Loaded len(df) raw samples
ValidateColumns ==
    /\ pc = "validate"
    /\ IF FeatureCountMismatch(df)
       THEN /\ out' = Say("FATAL ERROR: Mismatch in feature count!", df.ncols)
            /\ pc' = "returned"
            /\ df' = df
       ELSE /\ df' = [df EXCEPT !.columns = FEATURE_NAMES]
            /\ out' = Say("Loaded raw samples", len(df))
            /\ pc' = "clean"
    /\ UNCHANGED << data_path, exc, X_train, X_test, model, avg_score,
                    onnx_model, modelFile, metaFile, prev >>

\* df.replace(...); df.dropna(...); print Using len(df) samples
Clean ==
    /\ pc = "clean"
    /\ df' = dropna(replace(df))
    /\ out' = Say("Using samples after cleaning", len(df'))
    /\ pc' = "warn"
    /\ UNCHANGED << data_path, exc, X_train, X_test, model, avg_score,
                    onnx_model, modelFile, metaFile, prev >>

\* if len(df) < 200: print Warning
WarnIfSmall ==
    /\ pc = "warn"
    /\ out' = IF IsSmall(df)
              THEN Say("Warning: Dataset is very small", len(df))
              ELSE out
    /\ pc' = "split"
    /\ UNCHANGED << data_path, exc, df, X_train, X_test, model, avg_score,
                    onnx_model, modelFile, metaFile, prev >>

\* X_train, X_test = train_test_split(df, test_size=0.3, random_state=42)
\* print Training IsolationForest model on len(X_train) samples
Split ==
    /\ pc = "split"
    /\ IF SplitRaises(len(df))
       THEN /\ exc' = [type |-> "ValueError: train set will be empty",
                       at |-> "train_test_split"]
            /\ pc' = "raised"
            /\ UNCHANGED << X_train, X_test, out >>
       ELSE /\ X_train' = train_test_split(df).train
            /\ X_test' = train_test_split(df).test
            /\ out' = Say("Training IsolationForest model on samples",
                          len(X_train'))
            /\ pc' = "fit"
            /\ exc' = exc
    /\ UNCHANGED << data_path, df, model, avg_score, onnx_model, modelFile,
                    metaFile, prev >>

\* model = IsolationForest(...); model.fit(X_train)
\* (the library call may raise)
Fit ==
    /\ pc = "fit"
    /\ \E ok \in BOOLEAN :
         IF ok
         THEN /\ model' = fit(X_train)
              /\ pc' = "score"
              /\ exc' = exc
         ELSE /\ exc' = [type |-> "Exception", at |-> "fit"]
              /\ pc' = "raised"
              /\ model' = model
    /\ UNCHANGED << data_path, out, df, X_train, X_test, avg_score,
                    onnx_model, modelFile, metaFile, prev >>

\* scores_test = model.score_samples(X_test); avg_score = np.mean(...)
Evaluate ==
    /\ pc = "score"
    /\ \E ok \in BOOLEAN :
         IF ok
         THEN /\ avg_score' = mean_score(model, X_test)
              /\ out' = Say("Average Anomaly Score (on test set)", len(X_test))
              /\ pc' = "convert"
              /\ exc' = exc
         ELSE /\ exc' = [type |-> "Exception", at |-> "score_samples"]
              /\ pc' = "raised"
              /\ UNCHANGED << avg_score, out >>
    /\ UNCHANGED << data_path, df, X_train, X_test, model, onnx_model,
                    modelFile, metaFile, prev >>

\* onnx_model = convert_sklearn(model, initial_types=..., target_opset=13)
Convert ==
    /\ pc = "convert"
    /\ \E ok \in BOOLEAN :
         IF ok
         THEN /\ onnx_model' = convert_sklearn(model, num_features)
              /\ pc' = "open_model"
              /\ exc' = exc
         ELSE /\ exc' = [type |-> "Exception", at |-> "convert_sklearn"]
              /\ pc' = "raised"
              /\ onnx_model' = onnx_model
    /\ UNCHANGED << data_path, out, df, X_train, X_test, model, avg_score,
                    modelFile, metaFile, prev >>

\* with open(model_output_path, "wb") as f: creates or truncates the file
OpenModelFile ==
    /\ pc = "open_model"
    /\ \E ok \in BOOLEAN :
         IF ok
         THEN /\ modelFile' = [by |-> "this", state |-> "empty",
                               content |-> NoOnnx]
              /\ pc' = "write_model"
              /\ exc' = exc
         ELSE /\ exc' = [type |-> "OSError", at |-> "open_model"]
              /\ pc' = "raised"
              /\ modelFile' = modelFile
    /\ UNCHANGED << data_path, out, df, X_train, X_test, model, avg_score,
                    onnx_model, metaFile, prev >>

\* an export whose exceptions are swallowed
write_model_next_swallow(outcome) == "open_meta"

\* where train_model goes after f.write(onnx_model.SerializeToString()):
\* an exception of either call leaves the function
write_model_next(outcome) ==
    IF outcome = "ok" THEN "open_meta" ELSE "raised"

\* f.write(onnx_model.SerializeToString()), in the file opened above:
\* SerializeToString may raise (nothing written yet), the write may fail
\* part way, or all bytes are written.
WriteModelFile ==
    /\ pc = "write_model"
    /\ \E outcome \in {"ok", "serialize", "write"} :
         /\ modelFile' =
              CASE outcome = "ok" ->
                     [by |-> "this", state |-> "complete",
                      content |-> onnx_model]
                [] outcome = "serialize" -> modelFile
                [] outcome = "write" ->
                     [by |-> "this", state |-> "partial", content |-> NoOnnx]
         /\ exc' =
              CASE outcome = "ok" -> exc
                [] outcome = "serialize" ->
                     [type |-> "Exception", at |-> "SerializeToString"]
                [] outcome = "write" ->
                     [type |-> "OSError", at |-> "write_model"]
         /\ out' = IF outcome = "ok" THEN Say("ONNX model saved", 0) ELSE out
         /\ pc' = write_model_next(outcome)
    /\ UNCHANGED << data_path, df, X_train, X_test, model, avg_score,
                    onnx_model, metaFile, prev >>

\* metadata = {...}; with open(metadata_output_path, "w") as f:
OpenMetaFile ==
    /\ pc = "open_meta"
    /\ \E ok \in BOOLEAN :
         IF ok
         THEN /\ metaFile' = [by |-> "this", state |-> "empty",
                              content |-> NoMeta]
              /\ pc' = "dump_meta"
              /\ exc' = exc
         ELSE /\ exc' = [type |-> "OSError", at |-> "open_meta"]
              /\ pc' = "raised"
              /\ metaFile' = metaFile
    /\ UNCHANGED << data_path, out, df, X_train, X_test, model, avg_score,
                    onnx_model, modelFile, prev >>

\* json.dump(metadata, f, indent=4); print saved; print Finished
DumpMeta ==
    /\ pc = "dump_meta"
    /\ \E ok \in BOOLEAN :
         IF ok
         THEN /\ metaFile' = [by |-> "this", state |-> "complete",
                              content |-> metadata(X_train, num_features,
                                                   avg_score)]
              /\ out' = Say("Model metadata saved", 0)
              /\ pc' = "done"
              /\ exc' = exc
         ELSE /\ metaFile' = [by |-> "this", state |-> "partial",
                              content |-> NoMeta]
              /\ exc' = [type |-> "OSError", at |-> "dump_meta"]
              /\ pc' = "raised"
              /\ out' = out
    /\ UNCHANGED << data_path, df, X_train, X_test, model, avg_score,
                    onnx_model, modelFile, prev >>

SplitDone == X_train # NoDf

\* A file as the next run finds it
LeftOver(f, old) == IF f.state = "absent" THEN f ELSE old

\* train_model(DATA_PATH, MODEL_PATH, METADATA_PATH) is invoked again on
\* the same input; what the finished run left on disk stays there.
Rerun ==
    /\ Terminated
    /\ pc' = "start"
    /\ out' = << >>
    /\ exc' = NoExc
    /\ df' = NoDf
    /\ X_train' = NoDf
    /\ X_test' = NoDf
    /\ model' = NoModel
    /\ avg_score' = NoScore
    /\ onnx_model' = NoOnnx
    /\ modelFile' = LeftOver(modelFile, OldModelFile)
    /\ metaFile' = LeftOver(metaFile, OldMetaFile)
    /\ prev' = IF SplitDone
               THEN [has |-> TRUE, train |-> Index(X_train),
                     test |-> Index(X_test)]
               ELSE prev
    /\ UNCHANGED data_path

Next ==
    \/ CheckPath
    \/ ReadCsv
    \/ ValidateColumns
    \/ Clean
    \/ WarnIfSmall
    \/ Split
    \/ Fit
    \/ Evaluate
    \/ Convert
    \/ OpenModelFile
    \/ WriteModelFile
    \/ OpenMetaFile
    \/ DumpMeta
    \/ Rerun

Spec == Init /\ [][Next]_vars

----------------------------------------------------------------------------
(* What a state shows of the stages that have run *)

Ingested == df # NoDf
Cleaned == Printed("Using samples after cleaning")
Warned == Printed("Warning: Dataset is very small")
Trained == model.fitted
Evaluated == avg_score.computed
Converted == onnx_model.converted

\* this run has neither created nor modified an output file
NoOutputWritten == modelFile.by # "this" /\ metaFile.by # "this"

\* the split has been attempted on the cleaned df
PastSplit == Cleaned /\ pc \notin {"warn", "split"}

\* the exceptions of library calls and file operations after the split
LateFaults ==
    {"fit", "score_samples", "convert_sklearn", "open_model",
     "SerializeToString", "write_model", "open_meta", "dump_meta"}

Range(f) == {f[i] : i \in DOMAIN f}

NonFinite == {"inf", "-inf", "nan"}

AllFinite(r) == \A p \in DOMAIN r.cells : r.cells[p] \notin NonFinite

\* the Dataset as ingested from the input file
RawRows == read_csv(data_path).df.rows

----------------------------------------------------------------------------
(* Claims *)

\* C1: a metadata file written by this run exists only when the model file
\* was completely written by this run, holding the converted fitted model,
\* and no stage before the metadata write failed.
C1_MetadataImpliesArtifact ==
    metaFile.by = "this" =>
        /\ modelFile.by = "this"
        /\ modelFile.state = "complete"
        /\ modelFile.content = onnx_model
        /\ Converted /\ Trained /\ Evaluated
        /\ onnx_model.graph_of = model
        /\ exc.at \in {"none", "dump_meta"}

C1_Witness ==
    /\ metaFile.by = "this"
    /\ metaFile.state = "complete"
    /\ modelFile.state = "complete"

\* C2: a parsed table whose column count differs from the schema length
\* ends the run with the feature-count diagnostic before cleaning,
\* splitting, training, evaluation or export, with no output file written;
\* a parsed table of schema width yields a Dataset (and a reported count) of
\* exactly the file's row count; a file whose lines all have the same width
\* is always parsed, with that width as its column count.
C2_SchemaMismatchHalts ==
    /\ (Ingested /\ pc # "validate" /\ df.ncols # num_features) =>
          /\ pc = "returned"
          /\ Printed("FATAL ERROR: Mismatch in feature count!")
          /\ ~Cleaned /\ ~SplitDone /\ ~Trained /\ ~Evaluated /\ ~Converted
          /\ NoOutputWritten
    /\ (Ingested /\ df.ncols = num_features) =>
          IF pc = "validate"
          THEN len(df) = Len(data_path.lines)
          ELSE /\ \E i \in 1..Len(out) :
                     /\ out[i].msg = "Loaded raw samples"
                     /\ out[i].n = Len(data_path.lines)
               /\ ~Printed("FATAL ERROR: Mismatch in feature count!")
    /\ ( /\ data_path.kind = "file"
         /\ Len(data_path.lines) > 0
         /\ \A i \in 1..Len(data_path.lines) :
               data_path.lines[i].width = data_path.lines[1].width
         /\ pc \notin {"start", "read"} ) =>
          /\ Ingested
          /\ df.ncols = data_path.lines[1].width

C2_Witness ==
    /\ pc = "returned"
    /\ Ingested
    /\ df.ncols = num_features - 1
    /\ len(df) = 2

\* C3 (as claimed): when the export step fails, in the conversion, in the
\* serialization to bytes or in the write, this run has not created,
\* truncated or partially written the model file, and has written no
\* metadata file.
C3_ExportFailureWritesNothing ==
    exc.at \in {"convert_sklearn", "open_model", "SerializeToString",
                "write_model"}
        => NoOutputWritten

\* C4 (as claimed): when the input path does not resolve to a readable
\* file, the run ends with the file-not-found diagnostic, nothing is
\* parsed, no later stage runs and no output file is written.
C4_UnreadableInputReportsNotFound ==
    (data_path.kind # "file" /\ Terminated) =>
        /\ pc = "returned"
        /\ Printed("FATAL ERROR: Data file not found")
        /\ exc = NoExc
        /\ ~Ingested /\ ~Cleaned /\ ~SplitDone /\ ~Trained
        /\ NoOutputWritten

\* C5: when the cleaned Dataset leaves no row for the TrainingSet (0 or 1
\* rows), the run ends at the split with the empty-train-set error, no model
\* is fitted and no output file is written; and no stage after the split
\* ever sees an empty TrainingSet.
C5_EmptyTrainingSetFails ==
    /\ (PastSplit /\ len(df) <= 1) =>
          /\ pc = "raised"
          /\ exc = [type |-> "ValueError: train set will be empty",
                    at |-> "train_test_split"]
          /\ ~SplitDone /\ ~Trained /\ ~Evaluated /\ ~Converted
          /\ NoOutputWritten
    /\ (PastSplit /\ pc # "raised") => len(X_train) >= 1
    /\ Trained => Len(model.fitted_on) >= 1

C5_Witness ==
    /\ pc = "raised"
    /\ exc.at = "train_test_split"
    /\ len(df) = 1
    /\ Len(RawRows) = 3

\* C6 (as claimed): a run on a file with at least one line whose field
\* count differs from the schema length halts with a fatal error.  Stated
\* in its weakest reading: whatever the error, such a run never completes
\* (a completed run has padded the line, dropped it or trained on it).
C6_MismatchedLineIsFatal ==
    ( /\ data_path.kind = "file"
      /\ \E i \in 1..Len(data_path.lines) :
            data_path.lines[i].width # num_features )
        => pc # "done"

\* C7: the cleaned Dataset is exactly the ingested rows that hold no
\* non-finite value, unaltered and in their order; its size is the ingested
\* size minus the number of rows with a non-finite value.
C7_CleanerKeepsFiniteRows ==
    Cleaned =>
        LET raw == RawRows
            kept == Range(df.rows)
            dropped == {i \in 1..Len(raw) : ~AllFinite(raw[i])}
        IN  /\ df.rows = SelectSeq(raw, AllFinite)
            /\ \A i \in 1..len(df) : AllFinite(df.rows[i])
            /\ len(df) = Len(raw) - Cardinality(dropped)
            /\ \A i \in 1..Len(raw) : AllFinite(raw[i]) => raw[i] \in kept

C7_Witness ==
    /\ pc = "warn"
    /\ len(df) = 2
    /\ Len(RawRows) = 3
    /\ \E i \in 1..3 : RawRows[i].cells = [p \in {num_features} |-> "-inf"]

\* the partition the Splitter is claimed to yield for the cleaned df
SplitIsPartition ==
    LET n == len(df)
        e == len(X_test)
    IN  /\ SplitDone
        /\ TestSizeDen * e >= TestSizeNum * n
        /\ TestSizeDen * (e - 1) < TestSizeNum * n
        /\ len(X_train) = n - e
        /\ Range(X_train.rows) \cap Range(X_test.rows) = {}
        /\ Range(X_train.rows) \cup Range(X_test.rows) = Range(df.rows)
        /\ Range(Index(X_train)) \cap Range(Index(X_test)) = {}
        /\ Cardinality(Range(Index(X_train))) = len(X_train)
        /\ Cardinality(Range(Index(X_test))) = e
        /\ (n = 1000 => len(X_train) = 700 /\ e = 300)
        /\ (prev.has => /\ prev.train = Index(X_train)
                        /\ prev.test = Index(X_test))

C9_SuccessIsConsistent ==
    pc = "done" =>
        LET art == modelFile.content
            md == metaFile.content
            sc == md.evaluation_metrics.average_anomaly_score_test
        IN  /\ modelFile.by = "this" /\ modelFile.state = "complete"
            /\ metaFile.by = "this" /\ metaFile.state = "complete"
            /\ art.converted /\ art.graph_of.fitted
            /\ art.graph_of.fitted_on = Index(X_train)
            /\ md.training_samples = Len(art.graph_of.fitted_on)
            /\ md.training_samples = len(X_train)
            /\ md.training_samples = n_train(len(df))
            /\ md.num_features = Len(FEATURE_NAMES)
            /\ md.num_features = art.input_width
            /\ art.dtype = "float32" /\ art.input_batch = "None"
            /\ md.feature_names_ordered = FEATURE_NAMES
            /\ sc.computed
            /\ sc.model = art.graph_of
            /\ sc.samples = Index(X_test)

C9_Witness ==
    /\ pc = "done"
    /\ metaFile.content.training_samples = 700
    /\ metaFile.content.num_features = 27

\* the warning is printed exactly for cleaned sizes below the threshold
WarningIffSmall ==
    (Cleaned /\ pc # "warn") => (Warned <=> len(df) < SmallDatasetRows)

\* a run that has ended went all the way and wrote both files, unless a
\* library call or a file operation after the split raised
CompletedUnlessLateFault ==
    \/ /\ pc = "done"
       /\ modelFile.by = "this" /\ modelFile.state = "complete"
       /\ metaFile.by = "this" /\ metaFile.state = "complete"
    \/ pc = "raised" /\ exc.at \in LateFaults

====
